---------------------------- MODULE Spec2Model ----------------------------
(***************************************************************************)
(* tauri-spy: the launcher pipeline of src/src/main.rs.                    *)
(*                                                                         *)
(* main() validates the target binary (validate_target), runs the advisory *)
(* WebKitGTK check (check_webkit_available), resolves libspy.so            *)
(* (find_libspy), composes LD_PRELOAD, spawns the target and turns the     *)
(* child's wait status into its own exit code.                             *)
(*                                                                         *)
(* The program's state is the record `run`.  What the operating system     *)
(* answers (the target file, the install layout, the inherited             *)
(* environment, the child's fate) is drawn when the code asks for it and   *)
(* kept in `target`, `fs`, `parentEnv`, `child`.  `twin` is a second run   *)
(* of the same code on the same answers, except that pkg-config answers    *)
(* the opposite way: it is what the non-interference property compares.    *)
(*                                                                         *)
(* An optional value (Option<T>, a value not read yet) is a sequence of    *)
(* length 0 or 1.  A path or string is a sequence of tokens.               *)
(***************************************************************************)
EXTENDS Integers, Sequences, FiniteSets, TLC

VARIABLES target, fs, parentEnv, child, run, twin

vars == <<target, fs, parentEnv, child, run, twin>>

---------------------------------------------------------------------------
(* Bounds of the model *)

\* bytes a target file may have beyond the 64-byte ELF header
MaxExtra == 1

\* tokens in the inherited LD_PRELOAD value
MaxExisting == 2

---------------------------------------------------------------------------
(* Program constants *)

\* bytes.len() < 64
ELF_HEADER_LEN == 64

\* mode() & 0o111
EXEC_BITS == 73

\* bytes[4] != 2
EI_CLASS == 4
ELFCLASS64 == 2

\* u16::from_le_bytes([bytes[18], bytes[19]]) != 0x3E
E_MACHINE == 18
EM_X86_64 == 62

\* u16::from_le_bytes([bytes[16], bytes[17]]); ET_EXEC=2, ET_DYN=3
E_TYPE == 16
ET_EXEC == 2
ET_DYN == 3

\* ExitCode::SUCCESS, ExitCode::FAILURE, status.code().unwrap_or(1)
EXIT_SUCCESS == 0
EXIT_FAILURE == 1
NO_CODE_DEFAULT == 1

\* `code as u8`
U8 == 256

---------------------------------------------------------------------------
(* Values *)

None == <<>>
Some(x) == <<x>>

\* a byte that is not valid UTF-8, and U+FFFD which replaces it
BAD == "<FF>"
REPL == "<U+FFFD>"

\* b"\x7fELF"
ELF_MAGIC == <<127, 69, 76, 70>>

\* the header offsets validate_target reads
Offsets == {0, 1, 2, 3, 4, 16, 17, 18, 19}

Header(magic, class, t0, t1, m0, m1) ==
    [i \in Offsets |->
        CASE i < 4  -> magic[i + 1]
          [] i = 4  -> class
          [] i = 16 -> t0
          [] i = 17 -> t1
          [] i = 18 -> m0
          [] OTHER  -> m1]

Magics == {ELF_MAGIC, <<127, 69, 76, 71>>}

Headers ==
    { Header(magic, class, t0, t1, m0, m1) :
        magic \in Magics, class \in {1, 2}, t0 \in {1, 2, 3}, t1 \in {0, 1},
        m0 \in {3, 62}, m1 \in {0, 1} }

\* file contents: the length and the header bytes (all below offset 20)
Contents ==
    { [len |-> 0, b |-> Header(<<0, 0, 0, 0>>, 0, 0, 0, 0, 0)] }
    \cup [len : (ELF_HEADER_LEN - 1) .. (ELF_HEADER_LEN + MaxExtra), b : Headers]

\* 0o644, 0o755, 0o001
Modes == {420, 493, 1}

\* What the filesystem holds at cli.target.  statOk: path.metadata() at line
\* 58 succeeds; readOk: fs::read at line 65 succeeds.
Targets ==
    [kind : {"missing"}, mode : {0}, statOk : {FALSE}, readOk : {FALSE},
     bytes : {[len |-> 0, b |-> Header(<<0, 0, 0, 0>>, 0, 0, 0, 0, 0)]}]
    \cup
    [kind : {"dir"}, mode : {493}, statOk : {TRUE}, readOk : {FALSE},
     bytes : {[len |-> 0, b |-> Header(<<0, 0, 0, 0>>, 0, 0, 0, 0, 0)]}]
    \cup
    [kind : {"file"}, mode : Modes, statOk : BOOLEAN, readOk : BOOLEAN,
     bytes : Contents]

---------------------------------------------------------------------------
(* validate_target *)

RECURSIVE BitAnd(_, _)
BitAnd(a, b) ==
    IF a = 0 \/ b = 0 THEN 0
    ELSE (a % 2) * (b % 2) + 2 * BitAnd(a \div 2, b \div 2)

\* u16::from_le_bytes([lo, hi])
from_le_bytes(lo, hi) == lo + 256 * hi

\* &bytes[0..4]
Prefix4(bytes) == <<bytes.b[0], bytes.b[1], bytes.b[2], bytes.b[3]>>

\* validate_target with the machine field examined before the class byte
validate_target_machine_first(t) ==
    IF t.kind = "missing" THEN "TargetNotFound"
    ELSE IF t.kind # "file" THEN "NotAFile"
    ELSE IF ~t.statOk THEN "MetadataError"
    ELSE IF BitAnd(t.mode, EXEC_BITS) = 0 THEN "NotExecutable"
    ELSE IF ~t.readOk THEN "ReadError"
    ELSE IF t.bytes.len < ELF_HEADER_LEN \/ Prefix4(t.bytes) # ELF_MAGIC
         THEN "NotElf"
    ELSE IF from_le_bytes(t.bytes.b[E_MACHINE], t.bytes.b[E_MACHINE + 1])
                # EM_X86_64
         THEN "WrongArch"
    ELSE IF t.bytes.b[EI_CLASS] # ELFCLASS64 THEN "Not64Bit"
    ELSE IF LET e_type == from_le_bytes(t.bytes.b[E_TYPE], t.bytes.b[E_TYPE + 1])
            IN  e_type # ET_EXEC /\ e_type # ET_DYN
         THEN "NotExecutableType"
    ELSE "Ok"

\* validate_target with the file read before its permission bits are examined
validate_target_read_first(t) ==
    IF t.kind = "missing" THEN "TargetNotFound"
    ELSE IF t.kind # "file" THEN "NotAFile"
    ELSE IF ~t.readOk THEN "ReadError"
    ELSE IF ~t.statOk THEN "MetadataError"
    ELSE IF BitAnd(t.mode, EXEC_BITS) = 0 THEN "NotExecutable"
    ELSE IF t.bytes.len < ELF_HEADER_LEN \/ Prefix4(t.bytes) # ELF_MAGIC
         THEN "NotElf"
    ELSE IF t.bytes.b[EI_CLASS] # ELFCLASS64 THEN "Not64Bit"
    ELSE IF from_le_bytes(t.bytes.b[E_MACHINE], t.bytes.b[E_MACHINE + 1])
                # EM_X86_64
         THEN "WrongArch"
    ELSE IF LET e_type == from_le_bytes(t.bytes.b[E_TYPE], t.bytes.b[E_TYPE + 1])
            IN  e_type # ET_EXEC /\ e_type # ET_DYN
         THEN "NotExecutableType"
    ELSE "Ok"

validate_target(t) ==
    IF t.kind = "missing" THEN "TargetNotFound"
    ELSE IF t.kind # "file" THEN "NotAFile"
    ELSE IF ~t.statOk THEN "MetadataError"
    ELSE IF BitAnd(t.mode, EXEC_BITS) = 0 THEN "NotExecutable"
    ELSE IF ~t.readOk THEN "ReadError"
    ELSE IF t.bytes.len < ELF_HEADER_LEN \/ Prefix4(t.bytes) # ELF_MAGIC
         THEN "NotElf"
    ELSE IF t.bytes.b[EI_CLASS] # ELFCLASS64 THEN "Not64Bit"
    ELSE IF from_le_bytes(t.bytes.b[E_MACHINE], t.bytes.b[E_MACHINE + 1])
                # EM_X86_64
         THEN "WrongArch"
    ELSE IF LET e_type == from_le_bytes(t.bytes.b[E_TYPE], t.bytes.b[E_TYPE + 1])
            IN  e_type # ET_EXEC /\ e_type # ET_DYN
         THEN "NotExecutableType"
    ELSE "Ok"

---------------------------------------------------------------------------
(* check_webkit_available *)

\* What running `pkg-config --exists webkit2gtk-4.1` gives: exit 0, a nonzero
\* exit, or pkg-config cannot be run at all (status() is Err).
PkgOutcomes == {"exists", "absent", "norun"}

\* .status().map(|s| s.success()).unwrap_or(false)
check_webkit_available(pkg) ==
    IF pkg = "norun" THEN FALSE ELSE pkg = "exists"

---------------------------------------------------------------------------
(* find_libspy *)

SEP == "/"

\* where the launcher executable may live
ExePaths ==
    { <<SEP, "opt", SEP, "bin", SEP, "tauri-spy">>,
      <<SEP, "tauri-spy">>,
      <<SEP, BAD, SEP, "tauri-spy">> }

\* The install layout: the launcher's real location, whether
\* env::current_exe() can report it, which candidates exist, and what
\* canonicalize does ("plain": no symlink on the way, "symlink": the lib
\* directory is a symlink, "err": it fails).
Layouts ==
    [exe : ExePaths, exeOk : BOOLEAN, beside : BOOLEAN, inLib : BOOLEAN,
     canon : {"plain", "symlink", "err"}]

\* Path::parent of a path with at least one component below the root
parent(p) ==
    IF Len(p) <= 2 THEN SubSeq(p, 1, 1) ELSE SubSeq(p, 1, Len(p) - 2)

\* Path::join with a relative path
join(dir, rel) ==
    IF dir[Len(dir)] = SEP THEN dir \o rel ELSE dir \o <<SEP>> \o rel

LIBSPY == <<"libspy.so">>
LIB_LIBSPY == <<"..", SEP, "lib", SEP, "libspy.so">>

\* the components of an absolute path, and the path of a list of components
Components(p) == SelectSeq(p, LAMBDA t : t # SEP)

RECURSIVE FromComponents(_)
FromComponents(cs) ==
    IF cs = <<>> THEN <<SEP>>
    ELSE IF Len(cs) = 1 THEN <<SEP, cs[1]>>
    ELSE FromComponents(SubSeq(cs, 1, Len(cs) - 1)) \o <<SEP, cs[Len(cs)]>>

\* ".." resolved against the components before it (the root's parent is the root)
RECURSIVE ResolveDots(_, _)
ResolveDots(cs, stack) ==
    IF cs = <<>> THEN stack
    ELSE IF Head(cs) = ".."
         THEN ResolveDots(Tail(cs),
                          IF stack = <<>> THEN stack
                          ELSE SubSeq(stack, 1, Len(stack) - 1))
    ELSE ResolveDots(Tail(cs), Append(stack, Head(cs)))

\* Path::canonicalize, as the layout decides it
canonicalize(p, l) ==
    CASE l.canon = "err"     -> None
      [] l.canon = "symlink" -> Some(<<SEP, "usr", SEP, "lib64", SEP, "libspy.so">>)
      [] OTHER               -> Some(FromComponents(ResolveDots(Components(p), <<>>)))

ResultOk(p) == [ok |-> TRUE, path |-> p, err |-> ""]
ResultErr(e) == [ok |-> FALSE, path |-> <<>>, err |-> e]

\* find_libspy with the two candidates searched in the other order
find_libspy_lib_first(l) ==
    IF l.exeOk
    THEN LET dir == parent(l.exe)
         IN  IF l.inLib
             THEN LET c == canonicalize(join(dir, LIB_LIBSPY), l)
                  IN  IF c = None THEN ResultErr("CanonicalizeError")
                      ELSE ResultOk(c[1])
             ELSE IF l.beside THEN ResultOk(join(dir, LIBSPY))
             ELSE ResultErr("LibraryNotFound")
    ELSE ResultErr("LibraryNotFound")

find_libspy(l) ==
    IF l.exeOk
    THEN LET dir == parent(l.exe)
         IN  IF l.beside THEN ResultOk(join(dir, LIBSPY))
             ELSE IF l.inLib
                  THEN LET c == canonicalize(join(dir, LIB_LIBSPY), l)
                       IN  IF c = None THEN ResultErr("CanonicalizeError")
                           ELSE ResultOk(c[1])
                  ELSE ResultErr("LibraryNotFound")
    ELSE ResultErr("LibraryNotFound")

---------------------------------------------------------------------------
(* LD_PRELOAD composition *)

PATHSEP == ":"

RECURSIVE SeqsUpTo(_, _)
SeqsUpTo(S, n) ==
    IF n = 0 THEN {<<>>}
    ELSE LET shorter == SeqsUpTo(S, n - 1)
         IN  shorter \cup {Append(s, x) : s \in shorter, x \in S}

\* The parent's LD_PRELOAD: unset, or set to a value of up to MaxExisting
\* tokens, which need not be valid Unicode.
ParentEnvs ==
    {[set |-> FALSE, val |-> <<>>]}
    \cup [set : {TRUE}, val : SeqsUpTo({"X", PATHSEP, BAD}, MaxExisting)]

Contains(s, x) == \E i \in 1 .. Len(s) : s[i] = x

\* env::var: Err(NotPresent), Err(NotUnicode) or Ok(value)
env_var(e) ==
    IF ~e.set THEN [ok |-> FALSE, val |-> <<>>, err |-> "NotPresent"]
    ELSE IF Contains(e.val, BAD)
         THEN [ok |-> FALSE, val |-> <<>>, err |-> "NotUnicode"]
    ELSE [ok |-> TRUE, val |-> e.val, err |-> ""]

\* Path::to_string_lossy: invalid sequences become U+FFFD
to_string_lossy(p) ==
    [i \in 1 .. Len(p) |-> IF p[i] = BAD THEN REPL ELSE p[i]]

\* lines 164-169
compose_preload(libspy_path, e) ==
    LET preload == to_string_lossy(libspy_path)
        existing == env_var(e)
    IN  IF existing.ok /\ existing.val # <<>>
        THEN preload \o <<PATHSEP>> \o existing.val
        ELSE preload

\* lines 172, 177-182: the environment overlay handed to the child
child_env(preload, auto_open) ==
    [LD_PRELOAD |-> preload,
     TAURI_SPY_AUTO_OPEN |-> IF auto_open THEN "1" ELSE "0",
     WEBKIT_DISABLE_COMPOSITING_MODE |-> "1",
     WEBKIT_DISABLE_DMABUF_RENDERER |-> "1"]

---------------------------------------------------------------------------
(* the child's wait status and the launcher's exit code *)

ExitCodes == {0, 1, 2, 42, 127, 128, 255}
Signals == {9, 11}

\* ExitStatus: exited with code n, or killed by signal n (core: it dumped)
Statuses ==
    [exited : {TRUE}, n : ExitCodes, core : {FALSE}]
    \cup [exited : {FALSE}, n : Signals, core : BOOLEAN]

\* ExitStatus::success
success(st) == st.exited /\ st.n = 0

\* code() that takes a signal number for an exit code
code_of_signal_too(st) == Some(st.n)

\* ExitStatus::code
code(st) == IF st.exited THEN Some(st.n) ELSE None

unwrap_or(opt, d) == IF opt = None THEN d ELSE opt[1]

\* every unsuccessful child turned into ExitCode::FAILURE
exit_code_always_failure(st) ==
    IF success(st) THEN EXIT_SUCCESS ELSE EXIT_FAILURE

\* lines 186-198
exit_code_of(st) ==
    IF success(st) THEN EXIT_SUCCESS
    ELSE unwrap_or(code(st), NO_CODE_DEFAULT) % U8

---------------------------------------------------------------------------
(* main: one operator per stage, from a run's state to its next state *)

NewRun ==
    [pc |-> "Start", auto_open |-> FALSE, trace |-> <<>>,
     validated |-> "none", pkg |-> "none", warned |-> FALSE,
     libspy |-> None, preload |-> None, childEnv |-> None,
     spawnAttempted |-> FALSE, spawned |-> FALSE,
     error |-> "", exit |-> None]

\* line 118: Cli::parse() has built the request
parse_cli(r, auto_open) ==
    [r EXCEPT !.pc = "Validating", !.auto_open = auto_open]

\* main going on after a failed validation
stage_validate_unchecked(r, t) ==
    [r EXCEPT !.pc = "CheckWebkit", !.validated = validate_target(t),
              !.trace = Append(@, "validate_target")]

\* lines 121-124
stage_validate(r, t) ==
    LET v == validate_target(t)
    IN  IF v = "Ok"
        THEN [r EXCEPT !.pc = "CheckWebkit", !.validated = v,
                       !.trace = Append(@, "validate_target")]
        ELSE [r EXCEPT !.pc = "Aborted", !.validated = v, !.error = v,
                       !.exit = Some(EXIT_FAILURE),
                       !.trace = Append(@, "validate_target")]

\* main treating a missing WebKitGTK as an error
stage_webkit_abort(r, pkg) ==
    IF check_webkit_available(pkg)
    THEN [r EXCEPT !.pc = "Locating", !.pkg = pkg, !.warned = FALSE,
                   !.trace = Append(@, "check_webkit_available")]
    ELSE [r EXCEPT !.pc = "Aborted", !.pkg = pkg, !.warned = TRUE,
                   !.error = "WebKitNotFound", !.exit = Some(EXIT_FAILURE),
                   !.trace = Append(@, "check_webkit_available")]

\* lines 127-141
stage_webkit(r, pkg) ==
    [r EXCEPT !.pc = "Locating", !.pkg = pkg,
              !.warned = ~check_webkit_available(pkg),
              !.trace = Append(@, "check_webkit_available")]

\* lines 144-161
stage_locate(r, l) ==
    LET found == find_libspy(l)
    IN  IF found.ok
        THEN [r EXCEPT !.pc = "ComposingEnv", !.libspy = Some(found),
                       !.trace = Append(@, "find_libspy")]
        ELSE [r EXCEPT !.pc = "Aborted", !.libspy = Some(found),
                       !.error = found.err, !.exit = Some(EXIT_FAILURE),
                       !.trace = Append(@, "find_libspy")]

\* lines 164-172
stage_compose(r, e) ==
    LET preload == compose_preload(r.libspy[1].path, e)
    IN  [r EXCEPT !.pc = "Spawning", !.preload = Some(preload),
                  !.childEnv = Some(child_env(preload, r.auto_open)),
                  !.trace = Append(@, "compose_env")]

\* main reporting success when the spawn fails
stage_spawn_failure_exits_zero(r, started) ==
    IF started
    THEN [r EXCEPT !.pc = "Running", !.spawnAttempted = TRUE, !.spawned = TRUE,
                   !.trace = Append(@, "spawn")]
    ELSE [r EXCEPT !.pc = "Aborted", !.spawnAttempted = TRUE,
                   !.error = "LaunchFailed", !.exit = Some(EXIT_SUCCESS),
                   !.trace = Append(@, "spawn")]

\* main trying the spawn again when it fails
stage_spawn_retry(r, started) ==
    IF started
    THEN [r EXCEPT !.pc = "Running", !.spawnAttempted = TRUE, !.spawned = TRUE,
                   !.trace = Append(@, "spawn")]
    ELSE [r EXCEPT !.pc = "Spawning", !.spawnAttempted = TRUE,
                   !.trace = Append(@, "spawn")]

\* lines 175-183 and 199-202: Command::status() starts the child or fails
stage_spawn(r, started) ==
    IF started
    THEN [r EXCEPT !.pc = "Running", !.spawnAttempted = TRUE, !.spawned = TRUE,
                   !.trace = Append(@, "spawn")]
    ELSE [r EXCEPT !.pc = "Aborted", !.spawnAttempted = TRUE,
                   !.error = "LaunchFailed", !.exit = Some(EXIT_FAILURE),
                   !.trace = Append(@, "spawn")]

\* lines 183-198: Command::status() returns the child's status
stage_wait(r, st) ==
    [r EXCEPT !.pc = "Terminated", !.exit = Some(exit_code_of(st)),
              !.trace = Append(@, "wait")]

---------------------------------------------------------------------------
(* The state machine *)

NoChild == [state |-> "none", status |-> None]

Init ==
    /\ target \in Targets
    /\ fs = None
    /\ parentEnv = None
    /\ child = NoChild
    /\ run = NewRun
    /\ twin = NewRun

\* the twin takes the step the run takes, when it stands where the run stands
Along(r, next) == IF r.pc = run.pc THEN next ELSE r

ParseCli ==
    /\ run.pc = "Start"
    /\ \E auto_open \in BOOLEAN :
          /\ run' = parse_cli(run, auto_open)
          /\ twin' = Along(twin, parse_cli(twin, auto_open))
    /\ UNCHANGED <<target, fs, parentEnv, child>>

ValidateTarget ==
    /\ run.pc = "Validating"
    /\ run' = stage_validate(run, target)
    /\ twin' = Along(twin, stage_validate(twin, target))
    /\ UNCHANGED <<target, fs, parentEnv, child>>

CheckWebkit ==
    /\ run.pc = "CheckWebkit"
    /\ \E pkg \in PkgOutcomes, other \in PkgOutcomes :
          /\ check_webkit_available(other) # check_webkit_available(pkg)
          /\ run' = stage_webkit(run, pkg)
          /\ twin' = Along(twin, stage_webkit(twin, other))
    /\ UNCHANGED <<target, fs, parentEnv, child>>

FindLibspy ==
    /\ run.pc = "Locating"
    /\ \E l \in Layouts :
          /\ fs' = Some(l)
          /\ run' = stage_locate(run, l)
          /\ twin' = Along(twin, stage_locate(twin, l))
    /\ UNCHANGED <<target, parentEnv, child>>

ComposeEnv ==
    /\ run.pc = "ComposingEnv"
    /\ \E e \in ParentEnvs :
          /\ parentEnv' = Some(e)
          /\ run' = stage_compose(run, e)
          /\ twin' = Along(twin, stage_compose(twin, e))
    /\ UNCHANGED <<target, fs, child>>

Spawn ==
    /\ run.pc = "Spawning"
    /\ \E started \in BOOLEAN :
          /\ child' = [state |-> IF started THEN "running" ELSE "failed",
                       status |-> None]
          /\ run' = stage_spawn(run, started)
          /\ twin' = Along(twin, stage_spawn(twin, started))
    /\ UNCHANGED <<target, fs, parentEnv>>

Wait ==
    /\ run.pc = "Running"
    /\ \E st \in Statuses :
          /\ child' = [state |-> "exited", status |-> Some(st)]
          /\ run' = stage_wait(run, st)
          /\ twin' = Along(twin, stage_wait(twin, st))
    /\ UNCHANGED <<target, fs, parentEnv>>

Next ==
    \/ ParseCli
    \/ ValidateTarget
    \/ CheckWebkit
    \/ FindLibspy
    \/ ComposeEnv
    \/ Spawn
    \/ Wait

Spec == Init /\ [][Next]_vars

---------------------------------------------------------------------------
(* Vocabulary of the properties *)

\* the pipeline stage a run is in; the advisory check runs on the way from
\* a validated target to the Locator
Stage(r) == IF r.pc = "CheckWebkit" THEN "Locating" ELSE r.pc

Ran(r, op) == Contains(r.trace, op)

AfterInspector ==
    {"check_webkit_available", "find_libspy", "compose_env", "spawn", "wait"}

\* the seven validation failures of the error taxonomy, in check order
ErrorOf(k) ==
    CASE k = 1 -> "TargetNotFound"
      [] k = 2 -> "NotAFile"
      [] k = 3 -> "NotExecutable"
      [] k = 4 -> "NotElf"
      [] k = 5 -> "Not64Bit"
      [] k = 6 -> "WrongArch"
      [] OTHER -> "NotExecutableType"

Checks == 1 .. 7

ValidationErrors == {ErrorOf(k) : k \in Checks}

IoErrors == {"MetadataError", "ReadError"}

\* check k of the Inspector's contract fails on what the filesystem holds
Violates(t, k) ==
    CASE k = 1 -> t.kind = "missing"
      [] k = 2 -> t.kind # "file"
      [] k = 3 -> \A bit \in {64, 8, 1} : (t.mode \div bit) % 2 = 0
      [] k = 4 -> \/ t.bytes.len < 64
                  \/ \E i \in 0 .. 3 : t.bytes.b[i] # <<127, 69, 76, 70>>[i + 1]
      [] k = 5 -> t.bytes.b[4] # 2
      [] k = 6 -> ~(t.bytes.b[18] = 62 /\ t.bytes.b[19] = 0)
      [] OTHER -> ~(t.bytes.b[16] \in {2, 3} /\ t.bytes.b[17] = 0)

Violated(t) == {k \in Checks : Violates(t, k)}

FirstViolated(t) == CHOOSE k \in Violated(t) : \A j \in Violated(t) : k <= j

Validated(r) == r.validated # "none"

---------------------------------------------------------------------------
(* The claims *)

ChildExited == child.state = "exited"

\* C1: when the pipeline has reached Running and the child exits normally
\* with status c, the launcher's own exit status is exactly c (0 on a clean
\* exit, the child's nonzero code otherwise).
C1_ExitStatusPropagated ==
    (run.pc = "Terminated" /\ ChildExited /\ child.status[1].exited)
        => /\ Ran(run, "spawn")
           /\ run.exit = Some(child.status[1].n)

\* C1 witness: the child exited 42 and so did the launcher.
C1_Witness ==
    /\ run.pc = "Terminated"
    /\ ChildExited
    /\ child.status[1] = [exited |-> TRUE, n |-> 42, core |-> FALSE]
    /\ run.exit = Some(42)

\* C2: nothing after the Inspector runs on a target validate_target did not
\* accept; the child is never spawned (nor a spawn attempted) without a path
\* find_libspy resolved; with the artifact in neither location the pipeline
\* aborts before any spawn attempt.
C2_ValidatedBeforeLaterStages ==
    /\ (\E op \in AfterInspector : Ran(run, op))
          => (run.validated = "Ok" /\ Violated(target) = {})
    /\ (run.spawnAttempted \/ run.spawned \/ child.state # "none")
          => (run.libspy # None /\ run.libspy[1].ok /\ Ran(run, "find_libspy"))
    /\ (fs # None /\ ~fs[1].beside /\ ~fs[1].inLib)
          => /\ run.pc = "Aborted"
             /\ ~run.spawnAttempted
             /\ ~Ran(run, "spawn")
             /\ child.state = "none"

\* C2 witness: the artifact is in neither location and the pipeline has
\* aborted at the Locator.
C2_Witness ==
    /\ fs # None
    /\ fs[1].exeOk /\ ~fs[1].beside /\ ~fs[1].inLib
    /\ run.pc = "Aborted"
    /\ run.error = "LibraryNotFound"
    /\ run.validated = "Ok"

\* C3 as stated: every failure validate_target returns is the failure of the
\* first violated check, in the order exists, regular file, executable bit,
\* ELF magic and length, class, machine, type.
C3_Original_FirstViolatedCheckWins ==
    (Validated(run) /\ run.validated # "Ok")
        => /\ Violated(target) # {}
           /\ run.validated = ErrorOf(FirstViolated(target))

\* C3 amended: when the file's metadata and contents can be read, the
\* outcome is the failure of the first violated check (acceptance when none
\* is violated); otherwise it is an I/O failure, reported only after checks
\* 1-2 (metadata) or 1-3 (contents) have passed, and never a later check's
\* failure.
C3_FirstViolatedCheckWinsWhenReadable ==
    Validated(run) =>
        /\ run.validated \in ValidationErrors
              => /\ Violated(target) # {}
                 /\ run.validated = ErrorOf(FirstViolated(target))
        /\ run.validated = "Ok" => Violated(target) = {}
        /\ (target.statOk /\ target.readOk /\ Violated(target) # {})
              => run.validated = ErrorOf(FirstViolated(target))
        /\ run.validated = "MetadataError"
              => (Violated(target) \cap {1, 2} = {} /\ ~target.statOk)
        /\ run.validated = "ReadError"
              => (Violated(target) \cap {1, 2, 3} = {} /\ ~target.readOk)

\* C3 witness: a readable ELF buffer with a wrong class byte, a wrong machine
\* field and a wrong type field is reported as Not64Bit.
C3_Witness ==
    /\ run.validated = "Not64Bit"
    /\ {5, 6, 7} \subseteq Violated(target)

\* C4: on any validation failure, artifact-location failure or spawn failure
\* the launcher exits 1 and no child is running or was left running; a
\* missing target aborts with TargetNotFound.
C4_FailuresExitOne ==
    /\ ( \/ (Validated(run) /\ run.validated # "Ok")
         \/ (run.libspy # None /\ ~run.libspy[1].ok)
         \/ child.state = "failed"
         \/ run.error # "" )
          => /\ run.pc = "Aborted"
             /\ run.exit = Some(1)
             /\ ~run.spawned
             /\ child.state \in {"none", "failed"}
    /\ (Validated(run) /\ target.kind = "missing")
          => (run.error = "TargetNotFound" /\ child.state = "none")

\* C4 witness: the target path does not exist.
C4_Witness ==
    /\ target.kind = "missing"
    /\ run.pc = "Aborted"
    /\ run.error = "TargetNotFound"
    /\ run.exit = Some(1)
    /\ child.state = "none"

\* C5 as stated: validate_target returns acceptance or one of the seven
\* classified failures, whatever the state of the file.
C5_Original_ClosedTaxonomy ==
    Validated(run) => run.validated \in {"Ok"} \cup ValidationErrors

\* C5 amended: validate_target returns acceptance, one of the seven
\* classified failures, or an unclassified I/O failure; the I/O failure is
\* returned exactly when the path is a regular file whose metadata cannot be
\* read, or whose metadata shows an execute bit and whose contents cannot be
\* read.
C5_TaxonomyPlusIoFailure ==
    Validated(run) =>
        /\ run.validated \in {"Ok"} \cup ValidationErrors \cup IoErrors
        /\ run.validated \in IoErrors
              <=> /\ target.kind = "file"
                  /\ \/ ~target.statOk
                     \/ (~Violates(target, 3) /\ ~target.readOk)

\* C5 witness: an executable regular file whose contents cannot be read.
C5_Witness ==
    /\ run.validated = "ReadError"
    /\ target.kind = "file"
    /\ ~Violates(target, 3)
    /\ ~target.readOk
    /\ run.exit = Some(1)

\* C6 as stated: the child's LD_PRELOAD is P ":" X when the parent's value X
\* is non-empty and P alone when it is unset or empty, where P is the
\* resolved artifact path; it always starts with P and never drops an
\* existing entry.
C6_PreloadComposed ==
    run.preload # None =>
        LET P == run.libspy[1].path
            e == parentEnv[1]
            v == run.childEnv[1].LD_PRELOAD
        IN  /\ (e.set /\ e.val # <<>>) => v = P \o <<":">> \o e.val
            /\ (~e.set \/ e.val = <<>>) => v = P
            /\ Len(v) >= Len(P) /\ SubSeq(v, 1, Len(P)) = P

\* the stage changes the pipeline allows
StageOrder ==
    { <<"Start", "Validating">>,
      <<"Validating", "Locating">>, <<"Validating", "Aborted">>,
      <<"Locating", "ComposingEnv">>, <<"Locating", "Aborted">>,
      <<"ComposingEnv", "Spawning">>,
      <<"Spawning", "Running">>, <<"Spawning", "Aborted">>,
      <<"Running", "Terminated">> }

\* C7: the stage moves only along Start -> Validating -> Locating ->
\* ComposingEnv -> Spawning -> Running -> Terminated, Aborted is entered only
\* from Validating, Locating or Spawning, nothing leaves Terminated or
\* Aborted, and no operation runs twice.
C7_StageOrder ==
    [][ /\ \/ <<Stage(run), Stage(run')>> \in StageOrder
           \/ (run.pc = "CheckWebkit" /\ run'.pc = "Locating")
        /\ \A i, j \in 1 .. Len(run'.trace) :
              run'.trace[i] = run'.trace[j] => i = j ]_vars

\* C7 witness: a run that went through every stage and terminated.
C7_Witness ==
    /\ run.pc = "Terminated"
    /\ run.trace = <<"validate_target", "check_webkit_available",
                     "find_libspy", "compose_env", "spawn", "wait">>

ExeDir == parent(fs[1].exe)

\* C8 as stated: the candidate beside the launcher wins when it exists;
\* otherwise ../lib/libspy.so, canonicalized, when it exists; the lookup
\* fails with LibraryNotFound exactly when neither exists.
C8_Original_FirstMatchWins ==
    fs # None =>
        LET l == fs[1]
            found == run.libspy[1]
        IN  /\ l.beside => (found.ok /\ found.path = ExeDir \o (IF ExeDir = <<"/">> THEN <<>> ELSE <<"/">>) \o <<"libspy.so">>)
            /\ (~l.beside /\ l.inLib) => (found.ok /\ l.canon # "err")
            /\ (~found.ok /\ found.err = "LibraryNotFound")
                  <=> (~l.beside /\ ~l.inLib)
            /\ ~found.ok => found.err = "LibraryNotFound"

\* C8 amended: provided env::current_exe() reports the launcher's path, the
\* candidate beside the launcher wins when it exists; otherwise, when
\* ../lib/libspy.so exists, its canonicalized path is returned, or the
\* canonicalization's own error when that fails; the lookup fails with
\* LibraryNotFound exactly when neither candidate exists or the launcher's
\* path cannot be determined.
C8_FirstMatchWinsWhenExeKnown ==
    fs # None =>
        LET l == fs[1]
            found == run.libspy[1]
        IN  /\ (l.exeOk /\ l.beside)
                  => (found.ok /\ found.path = ExeDir \o (IF ExeDir = <<"/">> THEN <<>> ELSE <<"/">>) \o <<"libspy.so">>)
            /\ (l.exeOk /\ ~l.beside /\ l.inLib /\ l.canon = "plain")
                  => (found.ok /\ found.path =
                        (IF Len(ExeDir) <= 2 THEN <<>> ELSE SubSeq(ExeDir, 1, Len(ExeDir) - 2))
                        \o <<"/", "lib", "/", "libspy.so">>)
            /\ (l.exeOk /\ ~l.beside /\ l.inLib /\ l.canon = "symlink")
                  => (found.ok /\ found.path = <<"/", "usr", "/", "lib64", "/", "libspy.so">>)
            /\ (l.exeOk /\ ~l.beside /\ l.inLib /\ l.canon = "err")
                  => (~found.ok /\ found.err = "CanonicalizeError")
            /\ (~found.ok /\ found.err = "LibraryNotFound")
                  <=> (~l.exeOk \/ (~l.beside /\ ~l.inLib))

\* C8 witness: both candidates exist and the one beside the launcher is
\* returned.
C8_Witness ==
    /\ fs # None
    /\ fs[1].exeOk /\ fs[1].beside /\ fs[1].inLib
    /\ fs[1].exe = <<"/", "opt", "/", "bin", "/", "tauri-spy">>
    /\ run.libspy[1].ok
    /\ run.libspy[1].path = <<"/", "opt", "/", "bin", "/", "libspy.so">>

\* C9: a child killed by a signal (no retrievable exit code) makes the
\* launcher exit 1, and the launcher exits 0 only when the child exited
\* successfully.
C9_SignalGivesFailure ==
    /\ (run.pc = "Terminated" /\ ~child.status[1].exited) => run.exit = Some(1)
    /\ run.exit = Some(0)
          => /\ run.pc = "Terminated"
             /\ child.status[1].exited
             /\ child.status[1].n = 0

\* C9 witness: the child was killed by SIGSEGV and dumped core.
C9_Witness ==
    /\ run.pc = "Terminated"
    /\ child.status = Some([exited |-> FALSE, n |-> 11, core |-> TRUE])
    /\ run.exit = Some(1)

\* what a run did, apart from the advisory warning
Observable(r) ==
    [pc |-> r.pc, auto_open |-> r.auto_open, trace |-> r.trace,
     validated |-> r.validated, libspy |-> r.libspy, preload |-> r.preload,
     childEnv |-> r.childEnv, spawnAttempted |-> r.spawnAttempted,
     spawned |-> r.spawned, error |-> r.error, exit |-> r.exit]

\* C10: two runs on the same target, layout, environment and child, one
\* with check_webkit_available true and one with it false, execute the same
\* stages, spawn alike, compose the same child environment and exit alike;
\* they differ in the warning only.
C10_AdvisoryDoesNotInterfere ==
    /\ Observable(twin) = Observable(run)
    /\ Ran(run, "check_webkit_available")
          => /\ run.warned = ~check_webkit_available(run.pkg)
             /\ twin.warned = ~run.warned

\* C10 witness: pkg-config could not be run, the launcher warned, the twin
\* did not, and both terminated.
C10_Witness ==
    /\ run.pc = "Terminated"
    /\ twin.pc = "Terminated"
    /\ run.pkg = "norun"
    /\ run.warned
    /\ ~twin.warned

===========================================================================
